---------------------------- MODULE Spec2Model ----------------------------
(***************************************************************************)
(* WorldBest: greet() in src/src/worldbest/__init__.py and the command     *)
(* line adapter (parse_args, main) in src/src/worldbest/cli.py.            *)
(*                                                                         *)
(* A Python str is a sequence of one-character strings.  An optional       *)
(* value (a name that may be None) is the record None or Some(s).  The     *)
(* outcome of a call is Returned(v) or Raised(e).                          *)
(***************************************************************************)
EXTENDS Integers, Sequences, FiniteSets

\* ---------------------------------------------------------------- bounds
MaxLen == 3      \* longest enumerated name handed to greet directly
MaxArgs == 2     \* longest argument list handed to the CLI
MaxCalls == 2    \* direct greet calls made by one library client

\* ------------------------------------------------------ values and text
None == [present |-> FALSE]
Some(s) == [present |-> TRUE, val |-> s]
Returned(v) == [ok |-> TRUE, val |-> v]
Raised(e) == [ok |-> FALSE, exc |-> e]

NL == "\n"

\* characters str.strip() removes (the ones a TLA+ string can spell)
Whitespace == {" ", "\t", "\n", "\r", "\f"}

Digits == {"0", "1", "2", "3", "4", "5", "6", "7", "8", "9"}

World == <<"W","o","r","l","d">>
Hello == <<"H","e","l","l","o",","," ">>
Bang == <<"!">>

Alice == <<"A","l","i","c","e">>
Bob == <<"B","o","b">>
PaddedBob == <<" "," ">> \o Bob \o <<" "," ">>
PaddedWorld == <<" "," ">> \o World \o <<" "," ">>

\* ---------------------------------------------------------- str.strip()
\* first index at or after i that holds no whitespace (Len(s)+1 if none)
RECURSIVE LeftIndex(_, _)
LeftIndex(s, i) ==
    IF i <= Len(s) /\ s[i] \in Whitespace THEN LeftIndex(s, i + 1) ELSE i

\* last index at or before j, not below i, that holds no whitespace
RECURSIVE RightIndex(_, _, _)
RightIndex(s, i, j) ==
    IF j >= i /\ s[j] \in Whitespace THEN RightIndex(s, i, j - 1) ELSE j

\* a strip that forgets the right end (lstrip)
strip_left_only(s) == SubSeq(s, LeftIndex(s, 1), Len(s))

\* a strip that removes at most one character at each end
strip_one(s) ==
    LET i == IF Len(s) >= 1 /\ s[1] \in Whitespace THEN 2 ELSE 1
        j == IF Len(s) >= i /\ s[Len(s)] \in Whitespace
             THEN Len(s) - 1 ELSE Len(s)
    IN  SubSeq(s, i, j)

strip(s) ==
    LET i == LeftIndex(s, 1)
        j == RightIndex(s, i, Len(s))
    IN  SubSeq(s, i, j)

\* name.strip() as an attribute call: None has no strip
str_strip(name) ==
    IF name.present THEN Returned(strip(name.val))
    ELSE Raised("AttributeError")

\* ------------------------------------------------------------- greet()
DefaultName == World          \* def greet(name: str = "World")

Format(safe) == Hello \o safe \o Bang      \* f"Hello, {safe}!"

\* line 12 with the None test left out: safe = name.strip()
safe_no_none_check(name) == str_strip(name)

\* line 12 with an empty fallback name
safe_empty_fallback(name) ==
    IF name.present THEN str_strip(name) ELSE Returned(<< >>)

\* line 12 followed by: or "World"
safe_coerce_empty(name) ==
    IF ~name.present THEN Returned(World)
    ELSE IF strip(name.val) = << >> THEN Returned(World)
    ELSE str_strip(name)

\* line 12: safe = name.strip() if name is not None else "World"
safe(name) == IF name.present THEN str_strip(name) ELSE Returned(World)

\* line 13; an exception raised on line 12 leaves greet
greet(name) ==
    IF safe(name).ok THEN Returned(Format(safe(name).val)) ELSE safe(name)

\* ------------------------------------------- argparse, as parse_args uses it
\* parser = ArgumentParser(prog="worldbest", description="WorldBest CLI")
\* registers the help option under these two option strings.
ShortHelp == <<"-","h">>
LongHelp == <<"-","-","h","e","l","p">>
OptionStrings == {ShortHelp, LongHelp}
DashDash == <<"-","-">>

Usage ==
    <<"u","s","a","g","e",":"," ","w","o","r","l","d","b","e",
      "s","t"," ","[","-","h","]"," ","[","n","a","m","e","]",
      "\n">>
Description == <<"W","o","r","l","d","B","e","s","t"," ","C","L","I">>
ErrorPrefix ==
    <<"w","o","r","l","d","b","e","s","t",":"," ","e","r","r",
      "o","r",":"," ">>
Unrecognized ==
    <<"u","n","r","e","c","o","g","n","i","z","e","d"," ","a",
      "r","g","u","m","e","n","t","s">>
IgnoredExplicit ==
    <<"a","r","g","u","m","e","n","t"," ","-","h","/","-","-",
      "h","e","l","p",":"," ","i","g","n","o","r","e","d"," ",
      "e","x","p","l","i","c","i","t"," ","a","r","g","u","m",
      "e","n","t">>

\* print_help(): the usage line, a blank line, the description (the listing
\* of the arguments that follows in the real text is left out)
HelpText == Usage \o <<NL>> \o Description \o <<NL>>

\* parser.error(message): the usage line, then "worldbest: error: <message>"
\* (the offending strings that follow the message in the real text are left
\* out)
ErrorText(message) == Usage \o ErrorPrefix \o message \o <<NL>>

Contains(s, c) == \E i \in 1..Len(s) : s[i] = c

\* first index of c in s (c occurs in s)
IndexOf(s, c) == CHOOSE i \in 1..Len(s) : s[i] = c /\ \A k \in 1..(i - 1) : s[k] # c

StartsWith(s, p) == Len(p) <= Len(s) /\ SubSeq(s, 1, Len(p)) = p

AllIn(s, S) == \A i \in 1..Len(s) : s[i] \in S

\* _negative_number_matcher: '^-\d+$|^-\d*\.\d+$' ($ also matches before a
\* final newline)
NegativeNumber(a) ==
    LET t == IF Len(a) > 0 /\ a[Len(a)] = NL THEN SubSeq(a, 1, Len(a) - 1) ELSE a
        r == SubSeq(t, 2, Len(t))
    IN  /\ Len(t) >= 2
        /\ t[1] = "-"
        /\ \/ AllIn(r, Digits)
           \/ /\ Contains(r, ".")
              /\ LET d == IndexOf(r, ".")
                 IN  /\ d < Len(r)
                     /\ AllIn(SubSeq(r, 1, d - 1), Digits)
                     /\ AllIn(SubSeq(r, d + 1, Len(r)), Digits)

Positional == [kind |-> "positional"]
UnknownOption == [kind |-> "unknown"]
Option(option_string, explicit_arg) ==
    [kind |-> "option", option |-> option_string, explicit |-> explicit_arg]

\* _get_option_tuples(a) for Len(a) >= 2 and a[1] = "-": the registered
\* options a abbreviates (allow_abbrev) with the explicit argument it carries
get_option_tuples(a) ==
    IF a[2] = "-"
    THEN LET eq == Contains(a, "=")
             option_prefix == IF eq THEN SubSeq(a, 1, IndexOf(a, "=") - 1) ELSE a
             explicit_arg == IF eq THEN Some(SubSeq(a, IndexOf(a, "=") + 1, Len(a)))
                             ELSE None
         IN  {Option(o, explicit_arg) : o \in {x \in OptionStrings : StartsWith(x, option_prefix)}}
    ELSE LET short_option_prefix == SubSeq(a, 1, 2)
             short_explicit_arg == SubSeq(a, 3, Len(a))
         IN  {Option(o, Some(short_explicit_arg)) :
                  o \in {x \in OptionStrings : x = short_option_prefix}}
             \cup {Option(o, None) :
                  o \in {x \in OptionStrings : x # short_option_prefix /\ StartsWith(x, a)}}

\* a parser built with add_help=False: no option string is registered
parse_optional_no_help(a) ==
    IF Len(a) = 0 THEN Positional
    ELSE IF a[1] # "-" THEN Positional
    ELSE IF Len(a) = 1 THEN Positional
    ELSE IF NegativeNumber(a) THEN Positional
    ELSE IF Contains(a, " ") THEN Positional
    ELSE UnknownOption

\* _parse_optional(a): how one argument string is classified
parse_optional(a) ==
    IF Len(a) = 0 THEN Positional
    ELSE IF a[1] # "-" THEN Positional
    ELSE IF a \in OptionStrings THEN Option(a, None)
    ELSE IF Len(a) = 1 THEN Positional
    ELSE IF /\ Contains(a, "=")
            /\ SubSeq(a, 1, IndexOf(a, "=") - 1) \in OptionStrings
         THEN Option(SubSeq(a, 1, IndexOf(a, "=") - 1),
                     Some(SubSeq(a, IndexOf(a, "=") + 1, Len(a))))
    ELSE IF Cardinality(get_option_tuples(a)) > 1 THEN [kind |-> "ambiguous"]
    ELSE IF Cardinality(get_option_tuples(a)) = 1
         THEN CHOOSE t \in get_option_tuples(a) : TRUE
    ELSE IF NegativeNumber(a) THEN Positional
    ELSE IF Contains(a, " ") THEN Positional
    ELSE UnknownOption

\* consume_optional for the help action (nargs = 0): "help" when the action
\* fires (print_help, exit 0), "error" when the explicit argument is refused.
\* A single-dash option string reads its explicit argument as further flags.
RECURSIVE consume_optional(_)
consume_optional(opt) ==
    IF ~opt.explicit.present THEN "help"
    ELSE IF opt.option[2] # "-" /\ opt.explicit.val # << >>
         THEN LET e == opt.explicit.val
                  next == <<"-", e[1]>>
                  rest == SubSeq(e, 2, Len(e))
              IN  IF next \in OptionStrings
                  THEN consume_optional(
                           Option(next, IF rest = << >> THEN None ELSE Some(rest)))
                  ELSE "error"
    ELSE "error"

\* index of the first "--" of argv, Len(argv) + 1 when there is none
EndOfOptions(argv) ==
    IF \E i \in 1..Len(argv) : argv[i] = DashDash
    THEN IndexOf(argv, DashDash)
    ELSE Len(argv) + 1

\* the pattern parse_known_args builds: "-" for the first "--", "A" for a
\* positional and for everything after the first "--", "O" for an option
ArgPattern(argv) ==
    [i \in 1..Len(argv) |->
        IF i = EndOfOptions(argv) THEN "-"
        ELSE IF i > EndOfOptions(argv) THEN "A"
        ELSE IF parse_optional(argv[i]).kind = "positional" THEN "A"
        ELSE "O"]

\* the option strings are consumed left to right; the first one that names
\* the help action ends the run ("help" or "error"), unknown ones are kept
\* as extras ("none" when no option string ends the run)
RECURSIVE ConsumeOptionals(_, _)
ConsumeOptionals(argv, i) ==
    IF i >= EndOfOptions(argv) THEN "none"
    ELSE IF parse_optional(argv[i]).kind = "ambiguous" THEN "error"
    ELSE IF parse_optional(argv[i]).kind = "option"
         THEN consume_optional(parse_optional(argv[i]))
    ELSE ConsumeOptionals(argv, i + 1)

\* how many argument strings the positional name (nargs="?") takes from the
\* start of the pattern: the regular expression (-*A?-*)
MatchName(pattern) ==
    LET n == Len(pattern)
        d1 == IF n >= 1 /\ pattern[1] = "-" THEN 1 ELSE 0
        a == IF n >= d1 + 1 /\ pattern[d1 + 1] = "A" THEN 1 ELSE 0
        d2 == IF n >= d1 + a + 1 /\ pattern[d1 + a + 1] = "-" THEN 1 ELSE 0
    IN  d1 + a + d2

\* s without its first element equal to x (list.remove, no error if absent)
RemoveFirst(s, x) ==
    IF \E i \in 1..Len(s) : s[i] = x
    THEN SubSeq(s, 1, IndexOf(s, x) - 1) \o SubSeq(s, IndexOf(s, x) + 1, Len(s))
    ELSE s

CliDefault == World     \* add_argument("name", nargs="?", default="World")

\* _get_values for nargs="?": the first "--" is dropped, no string left
\* gives the default
NameValue(arg_strings) ==
    LET v == RemoveFirst(arg_strings, DashDash)
    IN  IF v = << >> THEN CliDefault ELSE v[1]

ParsedOk(name, extras) == [status |-> "ok", name |-> name, extras |-> extras]
ParsedHelp == [status |-> "help"]
ParsedError(message) == [status |-> "error", message |-> message]

\* parse_known_args(argv): the namespace and whether strings were left over
parse_known_args(argv) ==
    LET ev == ConsumeOptionals(argv, 1)
        pattern == ArgPattern(argv)
        taken == MatchName(pattern)
        extras == \E i \in 1..Len(argv) : pattern[i] = "O" \/ i > taken
    IN  IF ev = "help" THEN ParsedHelp
        ELSE IF ev = "error" THEN ParsedError(IgnoredExplicit)
        ELSE ParsedOk(NameValue(SubSeq(argv, 1, taken)), extras)

\* parse_args that keeps going when strings are left over
parse_args_ignore_extras(argv) ==
    LET r == parse_known_args(argv)
    IN  IF r.status = "ok" THEN ParsedOk(r.name, FALSE) ELSE r

\* parse_args(argv): parse_known_args, then an error if strings are left over
parse_args(argv) ==
    LET r == parse_known_args(argv)
    IN  IF r.status = "ok" /\ r.extras THEN ParsedError(Unrecognized) ELSE r

\* print(x): x and a newline, appended to the stream
print_no_newline(out, x) == out \o x

print(out, x) == out \o x \o <<NL>>

\* ------------------------------------------------------------ the inputs
Alphabet == {"A", "b", " ", "\n"}

Strings(n) == UNION {[1..k -> Alphabet] : k \in 0..n}

Names == Strings(MaxLen) \cup {Alice, Bob, PaddedBob, World, PaddedWorld}

ArgTokens ==
    { << >>, <<" ">>, <<"A">>, <<" ","A"," ">>, <<"A","\n","B">>,
      Alice, World, PaddedWorld,
      <<"-">>, DashDash, ShortHelp, LongHelp, <<"-","-","h","e">>,
      <<"-","x">>, <<"-","-","x">>, <<"-","1">>, <<"-",".","5">>,
      <<"-","h","x">>, <<"-","h","h">>, <<"-"," ","x">>,
      <<"-","-","h","=","1">> }

ArgLists == UNION {[1..k -> ArgTokens] : k \in 0..MaxArgs}

\* -------------------------------------------------------------- the state
VARIABLES
    pc,        \* "idle", then the CLI run's place: "main", "print", "return", "exited"
    argv,      \* the argument list of the CLI run
    ns,        \* ns.name after parse_args returned
    stdout,    \* characters written to standard output
    stderr,    \* characters written to standard error
    exitcode,  \* the run's exit code, NoExit while it runs
    arg,       \* the last greet call: was a name passed, and the bound parameter
    ret,       \* the outcome of the last greet call
    calls      \* greet calls so far

vars == <<pc, argv, ns, stdout, stderr, exitcode, arg, ret, calls>>

NoExit == -1
NoCall == [given |-> FALSE, name |-> None]
NoResult == Raised("NotCalled")
Traceback == <<"T","r","a","c","e","b","a","c","k">>

Init ==
    /\ pc = "idle"
    /\ argv = << >>
    /\ ns = None
    /\ stdout = << >>
    /\ stderr = << >>
    /\ exitcode = NoExit
    /\ arg = NoCall
    /\ ret = NoResult
    /\ calls = 0

\* a library client calls greet(name), name a str or None
CallGreet(name) ==
    /\ pc = "idle"
    /\ calls < MaxCalls
    /\ arg' = [given |-> TRUE, name |-> name]
    /\ ret' = greet(name)
    /\ calls' = calls + 1
    /\ UNCHANGED <<pc, argv, ns, stdout, stderr, exitcode>>

\* a library client calls greet(): the parameter is bound to its default
CallGreetDefault ==
    /\ pc = "idle"
    /\ calls < MaxCalls
    /\ arg' = [given |-> FALSE, name |-> Some(DefaultName)]
    /\ ret' = greet(Some(DefaultName))
    /\ calls' = calls + 1
    /\ UNCHANGED <<pc, argv, ns, stdout, stderr, exitcode>>

\* the process starts: sys.exit(main()) with sys.argv[1:] = a
Invoke(a) ==
    /\ pc = "idle"
    /\ calls = 0
    /\ pc' = "main"
    /\ argv' = a
    /\ UNCHANGED <<ns, stdout, stderr, exitcode, arg, ret, calls>>

\* ns = parse_args(argv) returns a namespace
ParseOk ==
    /\ pc = "main"
    /\ parse_args(argv).status = "ok"
    /\ ns' = Some(parse_args(argv).name)
    /\ pc' = "print"
    /\ UNCHANGED <<argv, stdout, stderr, exitcode, arg, ret, calls>>

\* parse_args met the help action: print_help() and exit(0)
ParseHelp ==
    /\ pc = "main"
    /\ parse_args(argv).status = "help"
    /\ stdout' = stdout \o HelpText
    /\ exitcode' = 0
    /\ pc' = "exited"
    /\ UNCHANGED <<argv, ns, stderr, arg, ret, calls>>

\* parse_args refused the arguments: error(message) writes to stderr, exit(2)
ParseError ==
    /\ pc = "main"
    /\ parse_args(argv).status = "error"
    /\ stderr' = stderr \o ErrorText(parse_args(argv).message)
    /\ exitcode' = 2
    /\ pc' = "exited"
    /\ UNCHANGED <<argv, ns, stdout, arg, ret, calls>>

\* print(greet(ns.name)); an exception of greet ends the process with 1
PrintGreeting ==
    /\ pc = "print"
    /\ arg' = [given |-> TRUE, name |-> ns]
    /\ ret' = greet(ns)
    /\ calls' = calls + 1
    /\ IF greet(ns).ok
       THEN /\ stdout' = print(stdout, greet(ns).val)
            /\ pc' = "return"
            /\ UNCHANGED <<stderr, exitcode>>
       ELSE /\ stderr' = stderr \o Traceback
            /\ exitcode' = 1
            /\ pc' = "exited"
            /\ UNCHANGED stdout
    /\ UNCHANGED <<argv, ns>>

\* return 0, handed to sys.exit
Return ==
    /\ pc = "return"
    /\ exitcode' = 0
    /\ pc' = "exited"
    /\ UNCHANGED <<argv, ns, stdout, stderr, arg, ret, calls>>

Next ==
    \/ \E s \in Names : CallGreet(Some(s))
    \/ CallGreet(None)
    \/ CallGreetDefault
    \/ \E a \in ArgLists : Invoke(a)
    \/ ParseOk
    \/ ParseHelp
    \/ ParseError
    \/ PrintGreeting
    \/ Return

Spec == Init /\ [][Next]_vars

\* ------------------------------------------------- vocabulary of the claims
\* the positions of s that hold no whitespace
NonWhitespace(s) == {i \in 1..Len(s) : s[i] \notin Whitespace}

\* s from its first to its last non-whitespace character, stated directly
Trimmed(s) ==
    IF NonWhitespace(s) = {} THEN << >>
    ELSE SubSeq(s,
                CHOOSE i \in NonWhitespace(s) : \A k \in NonWhitespace(s) : i <= k,
                CHOOSE j \in NonWhitespace(s) : \A k \in NonWhitespace(s) : k <= j)

Greeting(name) == Hello \o name \o Bang
HelloWorld == Greeting(World)

\* a greet call was made, and without a name: greet() or greet(None)
Called == calls > 0
Absent == ~arg.given \/ ~arg.name.present
Present == arg.given /\ arg.name.present

\* number of line ends in a stream
CountNL(out) == Cardinality({i \in 1..Len(out) : out[i] = NL})

\* an argument string that cannot be taken for a flag
IsName(t) == t = << >> \/ t[1] # "-"
IsHelpFlag(t) == t \in {ShortHelp, LongHelp}

\* the CLI run is past parse_args
Parsed == pc \in {"print", "return", "exited"}
Printed == pc \in {"return", "exited"}

\* the argument list is empty or one positional NAME
SimpleArgs == argv = << >> \/ (Len(argv) = 1 /\ IsName(argv[1]))
SimpleName == IF argv = << >> THEN World ELSE argv[1]

\* two or more positional arguments, or an unknown flag
PositionalCount == Cardinality({i \in 1..Len(argv) : ArgPattern(argv)[i] = "A"})
HasUnknownFlag ==
    \E i \in 1..Len(argv) :
        i < EndOfOptions(argv) /\ parse_optional(argv[i]).kind = "unknown"
InvalidArgs == PositionalCount >= 2 \/ HasUnknownFlag

\* some argument is read as the help option: -h, --help, a string that
\* starts with -h, or an abbreviation of --help
HasHelpOption ==
    \E i \in 1..Len(argv) :
        i < EndOfOptions(argv) /\ parse_optional(argv[i]).kind = "option"

\* -h or --help, alone or together with one NAME
HelpRequest ==
    \/ Len(argv) = 1 /\ IsHelpFlag(argv[1])
    \/ Len(argv) = 2 /\ IsHelpFlag(argv[1]) /\ IsName(argv[2])
    \/ Len(argv) = 2 /\ IsName(argv[1]) /\ IsHelpFlag(argv[2])

\* ------------------------------------------------------------------ claims
\* C1: for every string s, greet(s) returns "Hello, " followed by s without
\* its leading and trailing whitespace, followed by "!"; inner characters
\* are kept.
C1_GreetTrims ==
    (Called /\ arg.name.present) =>
        ret = Returned(Greeting(Trimmed(arg.name.val)))

C1_Witness ==
    /\ Called
    /\ arg = [given |-> TRUE, name |-> Some(PaddedBob)]
    /\ ret = Returned(Greeting(Bob))

\* C2: when the name is absent (greet() or greet(None)), greet returns
\* "Hello, World!".
C2_AbsentIsWorld == (Called /\ Absent) => ret = Returned(HelloWorld)

C2_Witness ==
    /\ Called
    /\ arg = [given |-> TRUE, name |-> None]
    /\ ret = Returned(HelloWorld)

\* C3: a name that is absent or empty after trimming defaults to "World",
\* so the greeting for such an input is "Hello, World!".
C3_EmptyDefaultsToWorld ==
    (Called /\ (Absent \/ Trimmed(arg.name.val) = << >>)) =>
        ret = Returned(HelloWorld)

\* C4: a present but empty or all-whitespace name is not replaced by
\* "World": the greeting is "Hello, !"; of an absent, an empty and an
\* all-whitespace name only the absent one is greeted as World.
C4_EmptyNotCoerced ==
    /\ (Called /\ Present /\ Trimmed(arg.name.val) = << >>) =>
           ret = Returned(Greeting(<< >>))
    /\ (Called /\ ret = Returned(HelloWorld)) =>
           (Absent \/ Trimmed(arg.name.val) = World)

C4_Witness ==
    /\ Called
    /\ Present
    /\ Len(arg.name.val) > 0
    /\ AllIn(arg.name.val, Whitespace)
    /\ ret = Returned(Greeting(<< >>))

\* C5 as stated: on every successful parse main prints exactly one line,
\* the greeting for the name, and returns 0.
C5_OneLine ==
    /\ (Parsed /\ SimpleArgs) => ns = Some(SimpleName)
    /\ (Printed /\ ns.present) =>
           /\ stdout = Greeting(Trimmed(ns.val)) \o <<NL>>
           /\ CountNL(stdout) = 1
    /\ (pc = "exited" /\ ns.present) => exitcode = 0

\* C5, amended: on every successful parse (no arguments, or one positional
\* NAME) main writes to standard output exactly the greeting for the name
\* (World when NAME is omitted) followed by one newline, writes nothing to
\* standard error, calls greet once, and returns 0.
C5_PrintsGreeting ==
    /\ (Parsed /\ SimpleArgs) => ns = Some(SimpleName)
    /\ (Printed /\ ns.present) =>
           /\ stdout = Greeting(Trimmed(ns.val)) \o <<NL>>
           /\ stderr = << >>
           /\ calls = 1
    /\ (pc = "exited" /\ ns.present) => exitcode = 0

C5_Witness ==
    /\ pc = "exited"
    /\ argv = <<Alice>>
    /\ stdout = Greeting(Alice) \o <<NL>>
    /\ exitcode = 0

\* C6 as stated: on two or more positional arguments, or an unknown flag,
\* the run ends with exit code 2 and a message on standard error, greet is
\* never called and nothing is written to standard output.
C6_InvalidExits2 ==
    (Parsed /\ InvalidArgs) =>
        /\ pc = "exited"
        /\ exitcode = 2
        /\ stderr # << >>
        /\ stdout = << >>
        /\ calls = 0

\* C6, amended: on two or more positional arguments, or an unknown flag,
\* and no argument read as the help option, the run ends with exit code 2
\* and a usage and error message on standard error, greet is never called
\* and nothing is written to standard output.
C6_InvalidWithoutHelpExits2 ==
    (Parsed /\ InvalidArgs /\ ~HasHelpOption) =>
        /\ pc = "exited"
        /\ exitcode = 2
        /\ StartsWith(stderr, Usage \o ErrorPrefix)
        /\ stdout = << >>
        /\ calls = 0

C6_Witness ==
    /\ pc = "exited"
    /\ argv = <<Alice, World>>
    /\ exitcode = 2
    /\ stderr = ErrorText(Unrecognized)

\* C7: greet is total and free of effects: every call, with a string or
\* with no name, returns a greeting ("Hello, " ... "!") and never raises;
\* a direct call changes nothing but its result, and the call made by main
\* adds to standard output only what main prints of that result.
C7_GreetTotalEffectFree ==
    [][calls' # calls =>
          /\ ret'.ok
          /\ StartsWith(ret'.val, Hello)
          /\ ret'.val[Len(ret'.val)] = "!"
          /\ (pc = "idle" =>
                 UNCHANGED <<pc, argv, ns, stdout, stderr, exitcode>>)
          /\ (pc = "print" =>
                 /\ stdout' = stdout \o ret'.val \o <<NL>>
                 /\ UNCHANGED <<argv, ns, stderr, exitcode>>)]_vars

C7_Witness ==
    /\ calls = MaxCalls
    /\ arg = [given |-> TRUE, name |-> None]
    /\ ret.ok

\* C8: -h or --help, alone or together with a NAME, prints the usage and
\* description text and ends the run with exit code 0; no greeting is
\* printed and greet is not called.
C8_HelpExits0 ==
    (Parsed /\ HelpRequest) =>
        /\ pc = "exited"
        /\ exitcode = 0
        /\ stdout = HelpText
        /\ stderr = << >>
        /\ calls = 0

C8_Witness ==
    /\ pc = "exited"
    /\ argv = <<Alice, ShortHelp>>
    /\ stdout = HelpText
    /\ exitcode = 0

\* C10: trimming is idempotent and the CLI default is the same as naming
\* World: greet(trim(s)) = greet(s), the name in a greeting has no leading
\* or trailing whitespace, and runs with NAME omitted, "World" and
\* "  World  " all print "Hello, World!".
C10_TrimIdempotent ==
    /\ (Called /\ arg.name.present) =>
           /\ ret = greet(Some(Trimmed(arg.name.val)))
           /\ LET np == SubSeq(ret.val, Len(Hello) + 1, Len(ret.val) - 1)
              IN  np = << >> \/ (np[1] \notin Whitespace /\ np[Len(np)] \notin Whitespace)
    /\ (Printed /\ argv \in {<< >>, <<World>>, <<PaddedWorld>>}) =>
           stdout = HelloWorld \o <<NL>>

C10_Witness ==
    /\ pc = "exited"
    /\ argv = <<PaddedWorld>>
    /\ stdout = HelloWorld \o <<NL>>

=============================================================================
